---- MODULE Spec2Model ----
(***************************************************************************)
(* A model of package bigfloat (zephyrtronium/bigfloat): the pi cache and  *)
(* its locking protocol, Round, and the frame behaviour of Log, Exp, Pow.  *)
(*                                                                         *)
(* Three specifications share the module:                                  *)
(*   SpecPi    concurrent callers of Pi and cachedPi over piCache / piMu   *)
(*   SpecRound Round(o, z, mode) on bit-exact floats                       *)
(*   SpecCalls single calls of Log, Exp and Pow over a heap of objects     *)
(***************************************************************************)
EXTENDS Integers, Sequences, FiniteSets, TLC

(***************************************************************************)
(* Bounds of the model.                                                    *)
(***************************************************************************)
\* number of goroutines calling Pi / cachedPi concurrently
NumProcs == 2
\* number of precisions above the initial cache precision that are requested
MaxGrow == 2
\* number of calls of Pi and cachedPi made in all
MaxCalls == 2

\* Round model: fraction bits of the values tried (values are k / 2^FracBits)
FracBits == 2
\* Round model: bits of the integer part of the values tried
IntBits == 4

\* Log/Exp/Pow model: fraction bits of the numbers tried
CFracBits == 3
\* Log/Exp/Pow model: the largest number of argument reductions Exp needs
MaxReduce == 2
\* newton: the largest guess precision and target precision tried
NewtonMaxPrec == 12

(***************************************************************************)
(* Program constants.                                                      *)
(***************************************************************************)
\* precision of the value init() stores into piCache
PiInitPrec == 1024
\* guard bits added to every working precision
Guard == 64
\* precision of big.NewFloat(x) and of SetFloat64 into a zero precision
Float64Prec == 53
\* math.Exp(x) is +Inf above 709.782 and 0 below -745.133 (in thousandths)
ExpOverflowMilli == 709782
ExpUnderflowMilli == 745133
\* the same limits for x = q * ln 2: 2^q is +Inf from q = 1024, 0 beyond -1075
Pow2Overflow == 1024
Pow2Underflow == 1075

VARIABLES
    heap,       \* pi model: sequence of float objects, [prec, val]
    piCache,    \* pi model: the object held by the atomic.Value
    piMu,       \* pi model: 0 when unlocked, else the goroutine holding it
    pc,         \* pi model: position of each goroutine
    kind,       \* pi model: which function the goroutine is in
    req,        \* pi model: the precision the call asks for (prec)
    ld,         \* pi model: the local variable pi (the object last loaded)
    tmp,        \* pi model: cachedPi's freshly allocated object
    ret,        \* pi model: the object the call returned
    hist,       \* history: every object ever stored in piCache, in order
    origin,     \* history: for a published copy, the object it was copied from
    startIdx,   \* history: Len(hist) when the goroutine's call started
    steps,      \* history: steps the goroutine took in its current call
    firstCov,   \* history: did the first loaded value cover the request
    busyAtStart, \* history: was piMu held when the call started
    calls,      \* history: number of calls begun so far
    rnd,        \* Round model: the arguments of one call and its outcome
    cl,         \* call model: the objects of one call and its outcome
    ag,         \* AGM loop: the working pair a2, b2 and where the call is
    nw,         \* newton loop: the precisions and where the call is
    lg,         \* Log squaring loop: o and where the call is
    turns       \* the turns the running loop has taken (Log's k)

piVars == <<heap, piCache, piMu, pc, kind, req, ld, tmp, ret,
            hist, origin, startIdx, steps, firstCov, busyAtStart, calls>>

vars == <<piVars, rnd, cl, ag, nw, lg, turns>>

\* what the pi cache's goroutines never touch
notPi == <<rnd, cl, ag, nw, lg, turns>>

(***************************************************************************)
(* The pi cache: piCache (atomic.Value), piMu (sync.Mutex), init, loadPi,  *)
(* cachedPi, Pi and piCalc.                                                *)
(***************************************************************************)
Procs == 1..NumProcs

\* precisions a caller may ask for: zero, the initial one, and above it
ReqPrecs == {0, PiInitPrec} \cup {PiInitPrec + 100 * k : k \in 1..MaxGrow}

\* object 1 is the value init() publishes; object 1 + p is the destination
\* goroutine p passes to Pi (and the o of a Log call that uses cachedPi)
InitObj == 1
dstOf(p) == 1 + p

Float(prec, val) == [prec |-> prec, val |-> val]

\* what runs in a specification is idle at the start, the rest is off
Phase(on, me) == [phase |-> IF on = me THEN "idle" ELSE "off"]

\* the package after init(); on names the callers that run
Start(on) ==
    /\ heap = [i \in 1..(NumProcs + 1) |->
                 IF i = InitObj THEN Float(PiInitPrec, "pi") ELSE Float(0, "zero")]
    /\ piCache = InitObj
    /\ piMu = 0
    /\ pc = [p \in Procs |-> "idle"]
    /\ kind = [p \in Procs |-> "none"]
    /\ req = [p \in Procs |-> 0]
    /\ ld = [p \in Procs |-> 0]
    /\ tmp = [p \in Procs |-> 0]
    /\ ret = [p \in Procs |-> 0]
    /\ hist = <<InitObj>>
    /\ origin = <<0>>
    /\ startIdx = [p \in Procs |-> 1]
    /\ steps = [p \in Procs |-> 0]
    /\ firstCov = [p \in Procs |-> "unknown"]
    /\ busyAtStart = [p \in Procs |-> FALSE]
    /\ calls = 0
    /\ rnd = Phase(on, "Round")
    /\ cl = Phase(on, "Calls")
    /\ ag = Phase(on, "AGM")
    /\ nw = Phase(on, "newton")
    /\ lg = Phase(on, "Log")
    /\ turns = 0

PiInit == Start("Pi")

\* one step of goroutine p inside its call, moving to position next
Step(p, next) ==
    /\ pc' = [pc EXCEPT ![p] = next]
    /\ steps' = [steps EXCEPT ![p] = @ + 1]
    /\ UNCHANGED <<calls, notPi>>

\* the call of goroutine p begins
Begin(p, k, prec, next) ==
    /\ pc[p] = "idle"
    /\ calls < MaxCalls
    /\ calls' = calls + 1
    /\ pc' = [pc EXCEPT ![p] = next]
    /\ kind' = [kind EXCEPT ![p] = k]
    /\ req' = [req EXCEPT ![p] = prec]
    /\ ld' = [ld EXCEPT ![p] = 0]
    /\ tmp' = [tmp EXCEPT ![p] = 0]
    /\ ret' = [ret EXCEPT ![p] = 0]
    /\ startIdx' = [startIdx EXCEPT ![p] = Len(hist)]
    /\ steps' = [steps EXCEPT ![p] = 0]
    /\ firstCov' = [firstCov EXCEPT ![p] = "unknown"]
    /\ busyAtStart' = [busyAtStart EXCEPT ![p] = (piMu # 0)]
    /\ UNCHANGED notPi

\* the caller has taken the result; the call's locals are gone
End(p) ==
    /\ pc' = [pc EXCEPT ![p] = "idle"]
    /\ kind' = [kind EXCEPT ![p] = "none"]
    /\ req' = [req EXCEPT ![p] = 0]
    /\ ld' = [ld EXCEPT ![p] = 0]
    /\ tmp' = [tmp EXCEPT ![p] = 0]
    /\ ret' = [ret EXCEPT ![p] = 0]
    /\ steps' = [steps EXCEPT ![p] = 0]
    /\ firstCov' = [firstCov EXCEPT ![p] = "unknown"]
    /\ busyAtStart' = [busyAtStart EXCEPT ![p] = FALSE]
    /\ startIdx' = [startIdx EXCEPT ![p] = 1]
    /\ UNCHANGED <<calls, notPi>>

\* piCache.Store(obj), with the copy's source recorded
Publish(obj, from) ==
    /\ piCache' = obj
    /\ hist' = Append(hist, obj)
    /\ origin' = Append(origin, from)

NoPublish == UNCHANGED <<piCache, hist, origin>>

\* a caller runs Pi(a) with a = its own object set to precision prec
CallPi(p, prec) ==
    /\ Begin(p, "Pi", prec, "pi_entry")
    /\ heap' = [heap EXCEPT ![dstOf(p)] = Float(prec, "user")]
    /\ UNCHANGED <<piMu>>
    /\ NoPublish

\* Log (or any internal caller) runs cachedPi(prec)
CallCachedPi(p, prec) ==
    /\ Begin(p, "cachedPi", prec, "c_load")
    /\ UNCHANGED <<heap, piMu>>
    /\ NoPublish

\* Pi: prec := a.Prec(); if prec == 0 { return a.Set(&gzero) }
PiEntry(p) ==
    /\ pc[p] = "pi_entry"
    /\ IF heap[dstOf(p)].prec = 0
         THEN /\ heap' = [heap EXCEPT ![dstOf(p)] = Float(0, "zero")]
              /\ ret' = [ret EXCEPT ![p] = dstOf(p)]
              /\ Step(p, "ret")
         ELSE /\ UNCHANGED <<heap, ret>>
              /\ Step(p, "pi_load")
    /\ UNCHANGED <<piMu, kind, req, ld, tmp, startIdx, firstCov, busyAtStart>>
    /\ NoPublish

\* Pi: pi := loadPi()
PiLoad(p) ==
    /\ pc[p] = "pi_load"
    /\ ld' = [ld EXCEPT ![p] = piCache]
    /\ Step(p, "pi_check")
    /\ UNCHANGED <<heap, piMu, kind, req, tmp, ret, startIdx, firstCov, busyAtStart>>
    /\ NoPublish

PiCoversStrict(p) == req[p] < heap[ld[p]].prec
\* Pi: prec <= pi.Prec()
PiCovers(p) == req[p] <= heap[ld[p]].prec

\* Pi: if prec <= pi.Prec() { return a.Set(pi) }
PiCheck(p) ==
    /\ pc[p] = "pi_check"
    /\ firstCov' = [firstCov EXCEPT ![p] =
                      IF req[p] <= heap[ld[p]].prec THEN "yes" ELSE "no"]
    /\ IF PiCovers(p)
         THEN /\ heap' = [heap EXCEPT ![dstOf(p)] = Float(req[p], heap[ld[p]].val)]
              /\ ret' = [ret EXCEPT ![p] = dstOf(p)]
              /\ Step(p, "ret")
         ELSE /\ UNCHANGED <<heap, ret>>
              /\ Step(p, "pi_calc")
    /\ UNCHANGED <<piMu, kind, req, ld, tmp, startIdx, busyAtStart>>
    /\ NoPublish

\* piCalc(a), first half: a.SetFloat64(1).SetPrec(prec + 64) and the loop
PiCalcBegin(p) ==
    /\ pc[p] = "pi_calc"
    /\ heap' = [heap EXCEPT ![dstOf(p)] = Float(req[p] + Guard, "partial")]
    /\ Step(p, "pi_calc2")
    /\ UNCHANGED <<piMu, kind, req, ld, tmp, ret, startIdx, firstCov, busyAtStart>>
    /\ NoPublish

\* piCalc(a), second half: a.Mul(a, a).Quo(a, t); return a.SetPrec(prec)
PiCalcEnd(p) ==
    /\ pc[p] = "pi_calc2"
    /\ heap' = [heap EXCEPT ![dstOf(p)] = Float(req[p], "pi")]
    /\ Step(p, "pi_lock")
    /\ UNCHANGED <<piMu, kind, req, ld, tmp, ret, startIdx, firstCov, busyAtStart>>
    /\ NoPublish

MuIgnored == TRUE
\* piMu.Lock() returns only when no goroutine holds piMu
MuFree == piMu = 0

\* Pi: piMu.Lock()
PiLock(p) ==
    /\ pc[p] = "pi_lock"
    /\ MuFree
    /\ piMu' = p
    /\ Step(p, "pi_reload")
    /\ UNCHANGED <<heap, kind, req, ld, tmp, ret, startIdx, firstCov, busyAtStart>>
    /\ NoPublish

\* Pi: loadPi() under the lock
PiReload(p) ==
    /\ pc[p] = "pi_reload"
    /\ ld' = [ld EXCEPT ![p] = piCache]
    /\ Step(p, "pi_store")
    /\ UNCHANGED <<heap, piMu, kind, req, tmp, ret, startIdx, firstCov, busyAtStart>>
    /\ NoPublish

PiStoreAlways(p) == TRUE
\* Pi: loadPi().Prec() < prec
PiMustStore(p) == heap[ld[p]].prec < req[p]

PiStoredDst(p) == dstOf(p)
\* Pi: the object stored is new(big.Float).Copy(a)
PiStoredRef(p) == Len(heap) + 1

\* Pi: if loadPi().Prec() < prec { piCache.Store(new(big.Float).Copy(a)) }
PiStore(p) ==
    /\ pc[p] = "pi_store"
    /\ IF PiMustStore(p)
         THEN /\ heap' = Append(heap, heap[dstOf(p)])
              /\ Publish(PiStoredRef(p), dstOf(p))
         ELSE /\ UNCHANGED heap
              /\ NoPublish
    /\ Step(p, "pi_unlock")
    /\ UNCHANGED <<piMu, kind, req, ld, tmp, ret, startIdx, firstCov, busyAtStart>>

\* Pi: the deferred piMu.Unlock(), and return a
PiUnlock(p) ==
    /\ pc[p] = "pi_unlock"
    /\ piMu' = 0
    /\ ret' = [ret EXCEPT ![p] = dstOf(p)]
    /\ Step(p, "ret")
    /\ UNCHANGED <<heap, kind, req, ld, tmp, startIdx, firstCov, busyAtStart>>
    /\ NoPublish

\* the caller of Pi goes on to change its own result (a.Add(a, a), ...)
PiCallerMutates(p) ==
    /\ pc[p] = "ret"
    /\ kind[p] = "Pi"
    /\ heap' = [heap EXCEPT ![dstOf(p)] = Float(heap[dstOf(p)].prec, "user")]
    /\ End(p)
    /\ UNCHANGED piMu
    /\ NoPublish

\* cachedPi: pi := piCache.Load().(*big.Float)
CLoad(p) ==
    /\ pc[p] = "c_load"
    /\ ld' = [ld EXCEPT ![p] = piCache]
    /\ Step(p, "c_check")
    /\ UNCHANGED <<heap, piMu, kind, req, tmp, ret, startIdx, firstCov, busyAtStart>>
    /\ NoPublish

CachedCoversInverted(p) == heap[ld[p]].prec <= req[p]
\* cachedPi: pi.Prec() >= prec
CachedCovers(p) == heap[ld[p]].prec >= req[p]

\* cachedPi: if pi.Prec() >= prec { return pi }
CCheck(p) ==
    /\ pc[p] = "c_check"
    /\ firstCov' = [firstCov EXCEPT ![p] =
                      IF heap[ld[p]].prec >= req[p] THEN "yes" ELSE "no"]
    /\ IF CachedCovers(p)
         THEN /\ ret' = [ret EXCEPT ![p] = ld[p]]
              /\ Step(p, "ret")
         ELSE /\ UNCHANGED ret
              /\ Step(p, "c_lock")
    /\ UNCHANGED <<heap, piMu, kind, req, ld, tmp, startIdx, busyAtStart>>
    /\ NoPublish

\* cachedPi: piMu.Lock()
CLock(p) ==
    /\ pc[p] = "c_lock"
    /\ MuFree
    /\ piMu' = p
    /\ Step(p, "c_reload")
    /\ UNCHANGED <<heap, kind, req, ld, tmp, ret, startIdx, firstCov, busyAtStart>>
    /\ NoPublish

\* cachedPi: pi = piCache.Load().(*big.Float), under the lock
CReload(p) ==
    /\ pc[p] = "c_reload"
    /\ ld' = [ld EXCEPT ![p] = piCache]
    /\ Step(p, "c_recheck")
    /\ UNCHANGED <<heap, piMu, kind, req, tmp, ret, startIdx, firstCov, busyAtStart>>
    /\ NoPublish

\* cachedPi: if pi.Prec() >= prec { return pi }, under the lock; otherwise
\* new(big.Float).SetPrec(prec) and the first half of piCalc on it
CRecheck(p) ==
    /\ pc[p] = "c_recheck"
    /\ IF CachedCovers(p)
         THEN /\ ret' = [ret EXCEPT ![p] = ld[p]]
              /\ UNCHANGED <<heap, tmp>>
              /\ Step(p, "c_unlock")
         ELSE /\ heap' = Append(heap, Float(req[p] + Guard, "partial"))
              /\ tmp' = [tmp EXCEPT ![p] = Len(heap) + 1]
              /\ UNCHANGED ret
              /\ Step(p, "c_calc2")
    /\ UNCHANGED <<piMu, kind, req, ld, startIdx, firstCov, busyAtStart>>
    /\ NoPublish

\* cachedPi: piCalc returns a.SetPrec(prec)
CCalcEnd(p) ==
    /\ pc[p] = "c_calc2"
    /\ heap' = [heap EXCEPT ![tmp[p]] = Float(req[p], "pi")]
    /\ Step(p, "c_store")
    /\ UNCHANGED <<piMu, kind, req, ld, tmp, ret, startIdx, firstCov, busyAtStart>>
    /\ NoPublish

\* cachedPi: piCache.Store(pi)
CStore(p) ==
    /\ pc[p] = "c_store"
    /\ Publish(tmp[p], 0)
    /\ ret' = [ret EXCEPT ![p] = tmp[p]]
    /\ Step(p, "c_unlock")
    /\ UNCHANGED <<heap, piMu, kind, req, ld, tmp, startIdx, firstCov, busyAtStart>>

\* cachedPi: the deferred piMu.Unlock(), and return pi
CUnlock(p) ==
    /\ pc[p] = "c_unlock"
    /\ piMu' = 0
    /\ Step(p, "ret")
    /\ UNCHANGED <<heap, kind, req, ld, tmp, ret, startIdx, firstCov, busyAtStart>>
    /\ NoPublish

\* Log: o.Quo(pi, o.Mul(two, agm)) reads the value cachedPi returned and
\* writes Log's own destination
LogUsesPi(p) ==
    /\ pc[p] = "ret"
    /\ kind[p] = "cachedPi"
    /\ heap' = [heap EXCEPT ![dstOf(p)] =
                  Float(IF req[p] > Guard THEN req[p] - Guard ELSE req[p],
                        IF heap[ret[p]].val = "pi" THEN "log" ELSE "garbage")]
    /\ End(p)
    /\ UNCHANGED piMu
    /\ NoPublish

PiNext ==
    \E p \in Procs :
        \/ \E prec \in ReqPrecs : CallPi(p, prec)
        \/ \E prec \in ReqPrecs : CallCachedPi(p, prec)
        \/ PiEntry(p)
        \/ PiLoad(p)
        \/ PiCheck(p)
        \/ PiCalcBegin(p)
        \/ PiCalcEnd(p)
        \/ PiLock(p)
        \/ PiReload(p)
        \/ PiStore(p)
        \/ PiUnlock(p)
        \/ PiCallerMutates(p)
        \/ CLoad(p)
        \/ CCheck(p)
        \/ CLock(p)
        \/ CReload(p)
        \/ CRecheck(p)
        \/ CCalcEnd(p)
        \/ CStore(p)
        \/ CUnlock(p)
        \/ LogUsesPi(p)

\* no call of Round, Log, Exp or Pow is made beside the pi cache's goroutines

SpecPi == PiInit /\ [][PiNext]_vars

(***************************************************************************)
(* big.Float as Round uses it.  A float is [form, neg, num, prec, mode];   *)
(* a finite float has the value (+/-) num / 2^FracBits and its num has at  *)
(* most prec significant bits.                                             *)
(***************************************************************************)
Scale == 2 ^ FracBits
MaxBits == FracBits + IntBits + 2

Modes == {"ToNearestEven", "ToNearestAway", "ToZero",
          "AwayFromZero", "ToNegativeInf", "ToPositiveInf"}

\* number of bits of n > 0
BitLenOf == [n \in 1..(2 ^ MaxBits - 1) |->
               CHOOSE k \in 1..MaxBits : 2 ^ (k - 1) <= n /\ n < 2 ^ k]
BitLen(n) == BitLenOf[n]
\* number of trailing zero bits of n > 0
TrailingZerosOf == [n \in 1..(2 ^ MaxBits - 1) |->
                      CHOOSE k \in 0..MaxBits : n % (2 ^ k) = 0 /\ n % (2 ^ (k + 1)) # 0]
TrailingZeros(n) == TrailingZerosOf[n]

BigFloat(form, neg, num, prec, mode) ==
    [form |-> form, neg |-> neg, num |-> num, prec |-> prec, mode |-> mode]

\* (*Float).MinPrec: the bits needed to represent the mantissa exactly
MinPrec(x) == IF x.form = "finite" THEN BitLen(x.num) - TrailingZeros(x.num) ELSE 0

\* (*Float).MantExp(nil): exp with 0.5 <= |mant| < 1 and x = mant * 2^exp
MantExp(x) == IF x.form = "finite" THEN BitLen(x.num) - FracBits ELSE 0

IsInf(x) == x.form = "inf"
Signbit(x) == x.neg

\* (*Float).IsInt
IsInt(x) ==
    IF x.form # "finite" THEN x.form = "zero"
    ELSE IF MantExp(x) <= 0 THEN FALSE
    ELSE x.prec <= MantExp(x) \/ MinPrec(x) <= MantExp(x)

\* (*Float).round: x rounded to x.prec bits as x.mode and the sign direct
RoundF(x) ==
    IF x.form # "finite" \/ BitLen(x.num) <= x.prec THEN x
    ELSE LET s == BitLen(x.num) - x.prec
             q == x.num \div (2 ^ s)
             r == x.num % (2 ^ s)
             half == 2 ^ (s - 1)
             inc == CASE x.mode = "ToNegativeInf" -> x.neg
                      [] x.mode = "ToZero" -> FALSE
                      [] x.mode = "ToNearestEven" -> r > half \/ (r = half /\ q % 2 = 1)
                      [] x.mode = "ToNearestAway" -> r >= half
                      [] x.mode = "AwayFromZero" -> TRUE
                      [] x.mode = "ToPositiveInf" -> ~x.neg
         IN IF r = 0 THEN x
            ELSE [x EXCEPT !.num = (IF inc THEN q + 1 ELSE q) * (2 ^ s)]

\* (*Float).SetPrec
SetPrecF(x, prec) ==
    IF prec = 0
      THEN [x EXCEPT !.prec = 0, !.num = 0,
                     !.form = IF @ = "finite" THEN "zero" ELSE @]
      ELSE IF prec < x.prec THEN RoundF([x EXCEPT !.prec = prec])
           ELSE [x EXCEPT !.prec = prec]

\* (*Float).SetMode
SetModeF(x, mode) == [x EXCEPT !.mode = mode]

\* (*Float).Set: o.Set(x) for two different objects
SetF(o, x) ==
    LET p == IF o.prec = 0 THEN x.prec ELSE o.prec
        c == BigFloat(x.form, x.neg, x.num, p, o.mode)
    IN IF p < x.prec THEN RoundF(c) ELSE c

\* the value as a signed number of 2^-FracBits units; infinities lie outside
Signed(x) ==
    CASE x.form = "zero" -> 0
      [] x.form = "finite" -> IF x.neg THEN 0 - x.num ELSE x.num
      [] x.form = "inf" -> IF x.neg THEN 0 - 2 ^ (MaxBits + 1) ELSE 2 ^ (MaxBits + 1)

\* (*Float).Cmp
Cmp(x, y) == IF Signed(x) < Signed(y) THEN -1 ELSE IF Signed(x) > Signed(y) THEN 1 ELSE 0

\* the package's globals that are never modified
gzero == BigFloat("zero", FALSE, 0, 0, "ToNearestEven")
ghalfp == BigFloat("finite", FALSE, Scale \div 2, 53, "ToNearestEven")
ghalfm == BigFloat("finite", TRUE, Scale \div 2, 53, "ToNearestEven")
gonep == BigFloat("finite", FALSE, Scale, 53, "ToNearestEven")
gonem == BigFloat("finite", TRUE, Scale, 53, "ToNearestEven")

round0evenTiesAway(o, z) ==
    IF Signbit(z)
      THEN IF Cmp(z, ghalfm) <= 0 THEN SetF(o, gonem) ELSE SetF(o, gzero)
      ELSE IF Cmp(z, ghalfp) >= 0 THEN SetF(o, gonep) ELSE SetF(o, gzero)
\* round0even
round0even(o, z) ==
    IF Signbit(z)
      THEN IF Cmp(z, ghalfm) < 0 THEN SetF(o, gonem) ELSE SetF(o, gzero)
      ELSE IF Cmp(z, ghalfp) > 0 THEN SetF(o, gonep) ELSE SetF(o, gzero)

\* round0away
round0away(o, z) ==
    IF Signbit(z)
      THEN IF Cmp(z, ghalfm) <= 0 THEN SetF(o, gonem) ELSE SetF(o, gzero)
      ELSE IF Cmp(z, ghalfp) >= 0 THEN SetF(o, gonep) ELSE SetF(o, gzero)

\* Round, the branch for z in (-1, 1) \ {0}
RoundBelowOne(o, z, mode) ==
    CASE mode = "ToNearestEven" -> round0even(o, z)
      [] mode = "ToNearestAway" -> round0away(o, z)
      [] mode = "ToZero" -> SetF(o, gzero)
      [] mode = "AwayFromZero" -> IF Signbit(z) THEN SetF(o, gonem) ELSE SetF(o, gonep)
      [] mode = "ToNegativeInf" -> IF Signbit(z) THEN SetF(o, gonem) ELSE SetF(o, gzero)
      [] mode = "ToPositiveInf" -> IF Signbit(z) THEN SetF(o, gzero) ELSE SetF(o, gonep)

ModeLeftInstalled(old, mode) == mode
\* defer o.SetMode(o.Mode()): the mode o has when Round returns, old being
\* its mode when the defer statement ran and mode the one installed after
DeferredMode(old, mode) == old

\* Round, the branch for a z with a nonzero integer part.  same says that o
\* and z are one object: then o.SetPrec rounds z itself and o.Set(z) does
\* nothing.
RoundShrink(o, z, mode, same) ==
    LET exp == MantExp(z)
    IN IF o.prec <= exp
         THEN IF same THEN o ELSE SetF(o, z)
         ELSE LET old == o.mode
                  o1 == SetModeF(o, mode)
                  p == o1.prec
                  o2 == SetPrecF(o1, exp)
                  o3 == IF same THEN o2 ELSE SetF(o2, z)
                  o4 == SetPrecF(o3, p)
              IN SetModeF(o4, DeferredMode(old, mode))

\* Round(o, z, mode): the value of o when it returns
Round(o, z, mode, same) ==
    IF IsInt(z) \/ IsInf(z)
      THEN IF same THEN o ELSE SetF(o, z)
      ELSE LET o1 == IF o.prec = 0 THEN SetPrecF(o, z.prec) ELSE o
           IN IF MantExp(z) <= 0
                THEN RoundBelowOne(o1, z, mode)
                ELSE RoundShrink(o1, z, mode, same)

(***************************************************************************)
(* Calls of Round.  The arguments are drawn by RoundInit; DoRound runs the *)
(* call.                                                                   *)
(***************************************************************************)
RPrecs == 1..(FracBits + IntBits + 1)

\* the finite values of z, each at the least precision that holds it and
\* at a larger one, and the zeros and infinities
RoundZs ==
    {x \in {BigFloat("finite", neg, num, prec, "ToNearestEven") :
               neg \in BOOLEAN, num \in 1..(2 ^ (FracBits + IntBits) - 1),
               prec \in RPrecs} :
        x.prec \in {MinPrec(x), FracBits + IntBits + 1}}
    \cup {BigFloat(form, neg, 0, prec, "ToNearestEven") :
        form \in {"zero", "inf"}, neg \in BOOLEAN, prec \in {0, FracBits + IntBits}}

\* the destinations: a fresh new(big.Float), or one holding 1 at some
\* precision and rounding mode
RoundOs ==
    {gzero} \cup {BigFloat("finite", FALSE, Scale, prec, mode) :
                    prec \in RPrecs, mode \in Modes}

\* Round(o, z, mode) has returned with o = res
RoundCall(o, z, mode, same) ==
    /\ rnd' = [phase |-> "done", z |-> z, o |-> o, mode |-> mode, same |-> same,
               res |-> Round(o, z, mode, same)]
    /\ UNCHANGED <<piVars, cl, ag, nw, lg, turns>>

\* a caller runs Round(o, z, mode) with o another object than z
DoRound ==
    /\ rnd.phase = "idle"
    /\ \E o \in RoundOs, z \in RoundZs, mode \in Modes : RoundCall(o, z, mode, FALSE)

\* a caller runs Round(z, z, mode)
DoRoundInPlace ==
    /\ rnd.phase = "idle"
    /\ \E z \in RoundZs, om \in Modes, mode \in Modes :
          RoundCall([z EXCEPT !.mode = om], [z EXCEPT !.mode = om], mode, TRUE)

\* the caller is ready for its next call
RoundReturn ==
    /\ rnd.phase = "done"
    /\ rnd' = [phase |-> "idle"]
    /\ UNCHANGED <<piVars, cl, ag, nw, lg, turns>>

RoundInit == Start("Round")

RoundNext == DoRound \/ DoRoundInPlace \/ RoundReturn

SpecRound == RoundInit /\ [][RoundNext]_vars

(***************************************************************************)
(* Log, Exp and Pow over a heap of big.Float objects.  An object is        *)
(* [val, prec, mode]; arguments are object ids, so that a destination that *)
(* is also a source is one object.  A value is a real number kept exactly: *)
(*   unit "one"   (+/-) n / 2^CFracBits                                    *)
(*   unit "ln2"   (+/-) (n / 2^CFracBits) * ln 2                           *)
(*   unit "lnof"  (+/-) | ln (n / 2^CFracBits) |                           *)
(*   unit "pow2"  2 ^ (n / 2^CFracBits), n signed                          *)
(*   unit "expe"  e ^ (n / 2^CFracBits), n signed                          *)
(* The iterations of AGM, piCalc and newton are taken by their limits; the *)
(* precision and rounding mode of every object are tracked as the code     *)
(* sets them.                                                              *)
(***************************************************************************)
CScale == 2 ^ CFracBits

Val(form, neg, unit, n) == [form |-> form, neg |-> neg, unit |-> unit, n |-> n]
Obj(val, prec, mode) == [val |-> val, prec |-> prec, mode |-> mode]

VZero(neg) == Val("zero", neg, "one", 0)
VInf(neg) == Val("inf", neg, "one", 0)
\* the number k / 2^CFracBits, k a signed integer
VNum(k) == IF k = 0 THEN VZero(FALSE)
           ELSE Val("finite", k < 0, "one", IF k < 0 THEN 0 - k ELSE k)
VOne == VNum(CScale)

\* new(big.Float)
NewObj == Obj(VZero(FALSE), 0, "ToNearestEven")
\* big.NewFloat(x)
NewFloat(v) == Obj(v, Float64Prec, "ToNearestEven")

Alloc(h, obj) == Append(h, obj)
Fresh(h) == Len(h) + 1

\* (*Float).Sign
SignOf(v) == IF v.form = "zero" THEN 0 ELSE IF v.neg THEN -1 ELSE 1

\* (*Float).SetPrec
HSetPrec(h, x, prec) ==
    [h EXCEPT ![x] = Obj(IF prec = 0 /\ @.val.form = "finite" THEN VZero(@.val.neg) ELSE @.val,
                         prec, @.mode)]

\* (*Float).Set with the value v of precision vprec
HSetVal(h, o, v, vprec) ==
    [h EXCEPT ![o] = Obj(v, IF @.prec = 0 THEN vprec ELSE @.prec, @.mode)]

\* o.Set(x)
HSet(h, o, x) == IF o = x THEN h ELSE HSetVal(h, o, h[x].val, h[x].prec)

\* o.Copy(x)
HCopy(h, o, x) == [h EXCEPT ![o] = h[x]]

\* o.SetInf(signbit)
HSetInf(h, o, signbit) == [h EXCEPT ![o] = Obj(VInf(signbit), @.prec, @.mode)]

\* o.SetFloat64(x)
HSetFloat64(h, o, v) ==
    [h EXCEPT ![o] = Obj(v, IF @.prec = 0 THEN Float64Prec ELSE @.prec, @.mode)]

\* an arithmetic result v stored into o: a zero precision becomes the larger
\* precision of the operands
HArith(h, o, v, xprec, yprec) ==
    [h EXCEPT ![o] = Obj(v, IF @.prec = 0
                              THEN (IF xprec >= yprec THEN xprec ELSE yprec)
                              ELSE @.prec, @.mode)]

\* the product of two values; "nan" where big.Float panics (0 * Inf)
MulVal(a, b) ==
    LET neg == a.neg # b.neg
    IN CASE (a.form = "zero" /\ b.form = "inf") \/ (a.form = "inf" /\ b.form = "zero") ->
                Val("nan", FALSE, "one", 0)
         [] a.form = "inf" \/ b.form = "inf" -> VInf(neg)
         [] a.form = "zero" \/ b.form = "zero" -> VZero(neg)
         [] a.unit = "one" /\ b.unit = "one" ->
                Val("finite", neg, "one", (a.n * b.n) \div CScale)
         [] a.unit = "one" /\ b.unit = "ln2" ->
                Val("finite", neg, "ln2", (a.n * b.n) \div CScale)
         [] a.unit = "ln2" /\ b.unit = "one" ->
                Val("finite", neg, "ln2", (a.n * b.n) \div CScale)
         [] a.unit = "pow2" /\ b.unit = "pow2" -> Val("finite", FALSE, "pow2", a.n + b.n)
         [] a.unit = "expe" /\ b.unit = "expe" -> Val("finite", FALSE, "expe", a.n + b.n)
         [] OTHER -> Val("finite", neg, "other", 0)

\* z.Cmp(one) for a finite z > 0
CmpOne(v) ==
    CASE v.unit = "one" -> IF v.n < CScale THEN -1 ELSE IF v.n > CScale THEN 1 ELSE 0
      [] v.unit \in {"pow2", "expe"} -> IF v.n < 0 THEN -1 ELSE IF v.n > 0 THEN 1 ELSE 0
      [] OTHER -> 1

IsPow2(n) == n = 2 ^ (BitLen(n) - 1)

\* the natural logarithm of a finite v > 0, v # 1
LogVal(v) ==
    CASE v.unit = "one" /\ IsPow2(v.n) ->
             LET e == BitLen(v.n) - 1 - CFracBits
             IN Val("finite", e < 0, "ln2", (IF e < 0 THEN 0 - e ELSE e) * CScale)
      [] v.unit = "one" /\ ~IsPow2(v.n) -> Val("finite", v.n < CScale, "lnof", v.n)
      [] v.unit = "pow2" -> Val("finite", v.n < 0, "ln2", IF v.n < 0 THEN 0 - v.n ELSE v.n)
      [] v.unit = "expe" -> Val("finite", v.n < 0, "one", IF v.n < 0 THEN 0 - v.n ELSE v.n)
      [] OTHER -> Val("finite", FALSE, "other", 0)

\* e to the power of a finite v # 0
ExpVal(v) ==
    CASE v.unit = "one" -> Val("finite", FALSE, "expe", IF v.neg THEN 0 - v.n ELSE v.n)
      [] v.unit = "ln2" -> Val("finite", FALSE, "pow2", IF v.neg THEN 0 - v.n ELSE v.n)
      [] OTHER -> Val("finite", FALSE, "other", 0)

\* zf, _ := z.Float64(); zf = math.Exp(zf); math.IsInf(zf, 1) || zf == 0
ExpOutOfRange(v) ==
    CASE v.unit = "one" ->
             IF v.neg THEN 1000 * v.n > ExpUnderflowMilli * CScale
                      ELSE 1000 * v.n > ExpOverflowMilli * CScale
      [] v.unit = "ln2" ->
             IF v.neg THEN v.n > Pow2Underflow * CScale
                      ELSE v.n >= Pow2Overflow * CScale
      [] OTHER -> FALSE

\* what a call leaves: the heap, the object returned (0 after a panic), how
\* it ended and the value it panicked with
Returned(h, obj) == [heap |-> h, ret |-> obj, out |-> "ok", err |-> "none"]
Panicked(h, e) == [heap |-> h, ret |-> 0, out |-> "panic", err |-> e]

\* ErrNaN{msg}
ErrNaN(msg) == [type |-> "bigfloat.ErrNaN", msg |-> msg]
\* ErrNaN.Unwrap
Unwrap(e) == IF e.type = "bigfloat.ErrNaN" THEN [type |-> "big.ErrNaN", msg |-> ""] ELSE e
\* the panic of math/big itself
BigErrNaN(msg) == [type |-> "big.ErrNaN", msg |-> msg]

LogNegativeBySign(v) == SignOf(v) < 0
\* Log: z.Signbit()
LogNegative(v) == v.neg

\* Log, from the guard digits on: o.SetPrec(prec).Set(z) or .Quo(one, z), the
\* squarings, pi / (2 AGM(1, 4/z)), the sign, the scaling by 2^-k and
\* o.SetPrec(prec - 64); v is the value of z when Log was called
LogGeneral(h, o, v) ==
    LET prec == h[o].prec + Guard
        h1 == HSetPrec(h, o, prec)
        h2 == [h1 EXCEPT ![o] = Obj(LogVal(v), @.prec, @.mode)]
    IN Returned(HSetPrec(h2, o, prec - Guard), o)

\* Log(o, z)
Log(h0, o, z) ==
    LET h == IF h0[o].prec = 0 THEN HSetPrec(h0, o, h0[z].prec) ELSE h0
        v == h[z].val
    IN IF LogNegative(v) THEN Panicked(h, ErrNaN("Log: argument is negative"))
       ELSE IF SignOf(v) = 0 THEN Returned(HSetInf(h, o, TRUE), o)
       ELSE IF v.form = "inf" THEN Returned(HSet(h, o, z), o)
       ELSE IF CmpOne(v) = 0 THEN Returned(HSetVal(h, o, VZero(FALSE), 0), o)
       ELSE LogGeneral(h, o, v)

\* newton(f, guess, dPrec) inside Exp, with f writing p: the heap when it
\* returns, and x == Fresh(h) the object it returns
ExpNewton(h, p, v, dPrec) ==
    LET h1 == Alloc(h, Obj(ExpVal(v), dPrec, "ToNearestEven"))
    IN IF Float64Prec < 2 * dPrec
         THEN [h1 EXCEPT ![p] = Obj(Val("finite", FALSE, "scratch", 0), @.prec, @.mode)]
         ELSE h1

RECURSIVE Exp(_, _, _)
\* Exp: the object returned from the argument reduction is p
ExpReduced(o, p) == p

\* Exp(o, z)
Exp(h0, o, z) ==
    LET h == IF h0[o].prec = 0 THEN HSetPrec(h0, o, h0[z].prec) ELSE h0
        v == h[z].val
    IN IF SignOf(v) = 0 THEN Returned(HSetFloat64(h, o, VOne), o)
       ELSE IF v.form = "inf"
         THEN IF SignOf(v) < 0 THEN Returned(HSetVal(h, o, VZero(FALSE), 0), o)
                               ELSE Returned(HSet(h, o, z), o)
       ELSE LET hp == IF o = z THEN Alloc(h, Obj(VZero(FALSE), h[z].prec, "ToNearestEven")) ELSE h
                p == IF o = z THEN Fresh(h) ELSE o
            IN IF ExpOutOfRange(v)
                 THEN LET halfZ == Fresh(hp)
                          hh == Alloc(hp, Obj(MulVal(v, VNum(CScale \div 2)),
                                              hp[p].prec + Guard, "ToNearestEven"))
                          r == Exp(hh, halfZ, halfZ)
                          sq == MulVal(r.heap[r.ret].val, r.heap[r.ret].val)
                      IN Returned(HArith(r.heap, p, sq, r.heap[r.ret].prec, r.heap[r.ret].prec),
                                  ExpReduced(o, p))
                 ELSE LET hn == ExpNewton(hp, p, v, hp[z].prec)
                          x == Fresh(hp)
                      IN Returned(HSet(hn, o, x), o)

\* Pow: the object returned by the short cuts for w = 0, w = 1, z = +Inf
PowShortcut(o, fresh) == fresh

\* Pow, the general case: exp(w log z) with guard digits
PowGeneral(h, o, z, w) ==
    LET h1 == HSetPrec(h, o, h[o].prec + Guard)
        logZ == Fresh(h1)
        l == Log(Alloc(h1, Obj(VZero(FALSE), h1[z].prec + Guard, "ToNearestEven")), logZ, z)
        wv == l.heap[w].val
        wx == Fresh(l.heap)
        h2 == Alloc(l.heap, Obj(wv, h1[z].prec + Guard, "ToNearestEven"))
        prod == MulVal(wv, h2[logZ].val)
    IN IF prod.form = "nan"
         THEN Panicked(h2, BigErrNaN("multiplication of zero with infinity"))
         ELSE LET e == Exp(HArith(h2, o, prod, h2[wx].prec, h2[logZ].prec), o, o)
              IN Returned(HSetPrec(e.heap, e.ret, e.heap[e.ret].prec - Guard), e.ret)

\* Pow(o, z, w)
Pow(h0, o, z, w) ==
    LET zp == h0[z].prec
        wp == h0[w].prec
        h == IF h0[o].prec = 0 THEN HSetPrec(h0, o, IF zp >= wp THEN zp ELSE wp) ELSE h0
    IN IF h[z].val.neg THEN Panicked(h, ErrNaN("Pow: negative base"))
       ELSE IF SignOf(h[w].val) = 0
         THEN Returned(HSetPrec(Alloc(h, NewFloat(VOne)), Fresh(h), h[z].prec),
                       PowShortcut(o, Fresh(h)))
       ELSE IF h[w].val = VOne \/ h[z].val.form = "inf"
         THEN Returned(HCopy(Alloc(h, NewObj), Fresh(h), z), PowShortcut(o, Fresh(h)))
       ELSE PowGeneral(h, o, z, w)

(***************************************************************************)
(* Natural numbers of any size, for mantissas wider than an integer here:  *)
(* a number is the sequence of its digits in base Limb, lowest first,      *)
(* with no leading zero digit; zero is the empty sequence.                 *)
(***************************************************************************)
LimbBits == 15
Limb == 2 ^ LimbBits

RECURSIVE NNorm(_)
NNorm(x) == IF x = <<>> THEN <<>>
            ELSE IF x[Len(x)] = 0 THEN NNorm(SubSeq(x, 1, Len(x) - 1))
            ELSE x

\* a small number as digits
RECURSIVE NOf(_)
NOf(n) == IF n = 0 THEN <<>> ELSE <<n % Limb>> \o NOf(n \div Limb)

RECURSIVE NAddC(_, _, _)
NAddC(x, y, c) ==
    IF x = <<>> /\ y = <<>> THEN (IF c = 0 THEN <<>> ELSE <<c>>)
    ELSE LET a == IF x = <<>> THEN 0 ELSE Head(x)
             b == IF y = <<>> THEN 0 ELSE Head(y)
             t == a + b + c
         IN <<t % Limb>> \o NAddC(IF x = <<>> THEN x ELSE Tail(x),
                                  IF y = <<>> THEN y ELSE Tail(y), t \div Limb)
NAdd(x, y) == NAddC(x, y, 0)

\* x - y - c for x >= y + c, digits not yet normalised
RECURSIVE NSubB(_, _, _)
NSubB(x, y, c) ==
    IF x = <<>> THEN <<>>
    ELSE LET b == IF y = <<>> THEN 0 ELSE Head(y)
             t == Head(x) - b - c
         IN <<IF t < 0 THEN t + Limb ELSE t>>
            \o NSubB(Tail(x), IF y = <<>> THEN y ELSE Tail(y), IF t < 0 THEN 1 ELSE 0)
NSub(x, y) == NNorm(NSubB(x, y, 0))

\* -1, 0, 1 as x is below, equal to, above y
RECURSIVE NCmpTop(_, _, _)
NCmpTop(x, y, i) ==
    IF i = 0 THEN 0
    ELSE IF x[i] < y[i] THEN -1
    ELSE IF x[i] > y[i] THEN 1
    ELSE NCmpTop(x, y, i - 1)
NCmp(x, y) ==
    IF Len(x) < Len(y) THEN -1
    ELSE IF Len(x) > Len(y) THEN 1
    ELSE NCmpTop(x, y, Len(x))

\* x * d + c for digits d, c
RECURSIVE NMulSmall(_, _, _)
NMulSmall(x, d, c) ==
    IF x = <<>> THEN (IF c = 0 THEN <<>> ELSE <<c>>)
    ELSE LET t == Head(x) * d + c
         IN <<t % Limb>> \o NMulSmall(Tail(x), d, t \div Limb)

RECURSIVE NMul(_, _)
NMul(x, y) ==
    IF x = <<>> \/ y = <<>> THEN <<>>
    ELSE LET rest == NMul(x, Tail(y))
         IN NAdd(NNorm(NMulSmall(x, Head(y), 0)),
                 IF rest = <<>> THEN <<>> ELSE <<0>> \o rest)

\* bit length of a digit
RECURSIVE DigitLen(_)
DigitLen(d) == IF d = 0 THEN 0 ELSE 1 + DigitLen(d \div 2)
NBitLen(x) == IF x = <<>> THEN 0 ELSE LimbBits * (Len(x) - 1) + DigitLen(x[Len(x)])

\* x * 2^k
NShl(x, k) ==
    IF x = <<>> THEN <<>>
    ELSE [i \in 1..(k \div LimbBits) |-> 0] \o NMulSmall(x, 2 ^ (k % LimbBits), 0)

\* the digits of x from the top down, divided by 2^r (r < LimbBits), with
\* carry c coming from above
RECURSIVE NShrBits(_, _, _, _)
NShrBits(x, i, r, c) ==
    IF i = 0 THEN <<>>
    ELSE NShrBits(x, i - 1, r, x[i] % (2 ^ r))
         \o <<(c * Limb + x[i]) \div (2 ^ r)>>
\* floor(x / 2^k)
NShr(x, k) ==
    LET q == k \div LimbBits
    IN IF Len(x) <= q THEN <<>>
       ELSE LET y == SubSeq(x, q + 1, Len(x))
            IN NNorm(NShrBits(y, Len(y), k % LimbBits, 0))

\* x mod 2^k is zero
NLowZero(x, k) == x = NShl(NShr(x, k), k)

NIsOdd(x) == x # <<>> /\ Head(x) % 2 = 1

\* bit i of x, counted from 0
NBit(x, i) == IF NIsOdd(NShr(x, i)) THEN 1 ELSE 0

\* floor of the square root, one result bit at a time: r is the root so
\* far and rq its square, bits i down to lo are decided here; trying bit i
\* squares to rq + r * 2^(i+1) + 2^(2i)
RECURSIVE NSqrtBits(_, _, _, _, _)
NSqrtBits(x, r, rq, i, lo) ==
    IF i < lo THEN <<r, rq>>
    ELSE LET tq == NAdd(NAdd(rq, NShl(r, i + 1)), NShl(<<1>>, 2 * i))
         IN IF NCmp(tq, x) <= 0
              THEN NSqrtBits(x, NAdd(r, NShl(<<1>>, i)), tq, i - 1, lo)
              ELSE NSqrtBits(x, r, rq, i - 1, lo)
\* the same from bit i down to bit 0, a digit's worth of bits at a time
RECURSIVE NSqrtFrom(_, _, _)
NSqrtFrom(x, p, i) ==
    IF i < 0 THEN p[1]
    ELSE LET lo == IF i >= LimbBits THEN i - LimbBits + 1 ELSE 0
             p2 == NSqrtBits(x, p[1], p[2], i, lo)
         IN IF p2[2] = x THEN p2[1] ELSE NSqrtFrom(x, p2, lo - 1)
NSqrt(x) == NSqrtFrom(x, <<(<<>>), (<<>>)>>, NBitLen(x) \div 2)

\* long division of n by d # 0, one bit of n at a time from bit i down to
\* lo: q is the quotient so far and r the remainder
RECURSIVE NDivBits(_, _, _, _, _, _)
NDivBits(n, d, q, r, i, lo) ==
    IF i < lo THEN <<q, r>>
    ELSE LET r2 == NAdd(NShl(r, 1), IF NBit(n, i) = 1 THEN <<1>> ELSE <<>>)
         IN IF NCmp(r2, d) >= 0
              THEN NDivBits(n, d, NAdd(NShl(q, 1), <<1>>), NSub(r2, d), i - 1, lo)
              ELSE NDivBits(n, d, NShl(q, 1), r2, i - 1, lo)
\* the same a digit's worth of bits at a time; the remainder stays below d
RECURSIVE NDivFrom(_, _, _, _)
NDivFrom(n, d, p, i) ==
    IF i < 0 THEN p
    ELSE LET lo == IF i >= LimbBits THEN i - LimbBits + 1 ELSE 0
             p2 == NDivBits(n, d, p[1], p[2], i, lo)
         IN IF lo = 0 \/ NCmp(p2[2], d) >= 0 THEN p2 ELSE NDivFrom(n, d, p2, lo - 1)
\* <<floor(n / d), n mod d>>
NDivMod(n, d) == NDivFrom(n, d, <<(<<>>), (<<>>)>>, NBitLen(n) - 1)

(***************************************************************************)
(* Finite big.Float values kept bit for bit: (-1)^neg * m * 2^e with m a   *)
(* natural number of any size, odd unless the value is zero, so that equal *)
(* values are equal records.                                               *)
(***************************************************************************)
FZero == [neg |-> FALSE, m |-> <<>>, e |-> 0]

\* the number of zero bits at the low end of x # 0
RECURSIVE NTrailing(_)
NTrailing(x) ==
    IF Head(x) = 0 THEN LimbBits + NTrailing(Tail(x))
    ELSE IF Head(x) % 2 = 0 THEN 1 + NTrailing(<<Head(x) \div 2>>)
    ELSE 0

FNum(neg, m, e) ==
    IF m = <<>> THEN FZero
    ELSE LET t == NTrailing(m)
         IN [neg |-> neg, m |-> NShr(m, t), e |-> e + t]

\* the integer k * 2^e for a small k
FInt(k, e) == FNum(k < 0, NOf(IF k < 0 THEN 0 - k ELSE k), e)

\* does rounding add one to the kept bits q: exact says nothing was dropped,
\* half is the first dropped bit, rest says the bits below it are all zero
RoundsUp(mode, neg, q, exact, half, rest) ==
    CASE mode = "ToZero" -> FALSE
      [] mode = "AwayFromZero" -> ~exact
      [] mode = "ToNegativeInf" -> neg /\ ~exact
      [] mode = "ToPositiveInf" -> ~neg /\ ~exact
      [] mode = "ToNearestEven" -> half = 1 /\ (~rest \/ NIsOdd(q))
      [] mode = "ToNearestAway" -> half = 1

\* (*Float).round: the value m * 2^e at prec bits under mode
FRound(neg, m, e, prec, mode) ==
    LET sh == NBitLen(m) - prec
    IN IF sh <= 0 THEN FNum(neg, m, e)
       ELSE LET q == NShr(m, sh)
                up == RoundsUp(mode, neg, q, NLowZero(m, sh),
                               NBit(m, sh - 1), NLowZero(m, sh - 1))
            IN FNum(neg, IF up THEN NAdd(q, <<1>>) ELSE q, e + sh)

FRoundVal(x, prec, mode) == FRound(x.neg, x.m, x.e, prec, mode)

MinOf(a, b) == IF a <= b THEN a ELSE b
MaxOf(a, b) == IF a >= b THEN a ELSE b

\* x.Cmp(y)
FCmp(x, y) ==
    LET e == MinOf(x.e, y.e)
        mx == NShl(x.m, x.e - e)
        my == NShl(y.m, y.e - e)
    IN IF x.neg # y.neg THEN (IF x.m = <<>> /\ y.m = <<>> THEN 0 ELSE IF x.neg THEN -1 ELSE 1)
       ELSE IF x.neg THEN NCmp(my, mx) ELSE NCmp(mx, my)

FNeg(x) == IF x.m = <<>> THEN x ELSE [x EXCEPT !.neg = ~@]

\* z.Add(x, y) at prec bits under mode
FAdd(x, y, prec, mode) ==
    LET e == MinOf(x.e, y.e)
        mx == NShl(x.m, x.e - e)
        my == NShl(y.m, y.e - e)
    IN IF x.neg = y.neg THEN FRound(x.neg, NAdd(mx, my), e, prec, mode)
       ELSE IF NCmp(mx, my) >= 0 THEN FRound(x.neg, NSub(mx, my), e, prec, mode)
       ELSE FRound(y.neg, NSub(my, mx), e, prec, mode)

\* z.Sub(x, y)
FSub(x, y, prec, mode) == FAdd(x, FNeg(y), prec, mode)

\* z.Mul(x, y)
FMul(x, y, prec, mode) == FRound(x.neg # y.neg, NMul(x.m, y.m), x.e + y.e, prec, mode)

\* z.Sqrt(x) for x >= 0, rounded as documented: the root to prec + 2 bits
\* and more, then one more bit saying whether anything is left below
FSqrt(x, prec, mode) ==
    IF x.m = <<>> THEN FZero
    ELSE LET need == MaxOf(0, 2 * (prec + 2) - NBitLen(x.m))
             s == need + ((x.e - need) % 2)
             big == NShl(x.m, s)
             r == NSqrt(big)
             sticky == IF NMul(r, r) = big THEN <<>> ELSE <<1>>
         IN FRound(FALSE, NAdd(NShl(r, 1), sticky), ((x.e - s) \div 2) - 1, prec, mode)

\* z.Quo(x, y) for finite x and y # 0: the quotient to prec + 2 bits and
\* more, then one more bit saying whether there is a remainder
FQuo(x, y, prec, mode) ==
    IF x.m = <<>> THEN FZero
    ELSE LET s == MaxOf(0, prec + 2 + NBitLen(y.m) - NBitLen(x.m))
             qr == NDivMod(NShl(x.m, s), y.m)
             sticky == IF qr[2] = <<>> THEN <<>> ELSE <<1>>
         IN FRound(x.neg # y.neg, NAdd(NShl(qr[1], 1), sticky),
                   x.e - y.e - s - 1, prec, mode)

\* quicksh(o, z, n) on the value: z * 2^n
FShift(x, n) == IF x.m = <<>> THEN x ELSE [x EXCEPT !.e = @ + n]

(***************************************************************************)
(* AGM over the heap.  A call is [heap, o, a2, b2, prec, lim]: the objects *)
(* and the ids of the destination and of the working pair.                 *)
(***************************************************************************)
\* x.SetPrec(prec) for a finite x and prec > 0
FSetPrec(h, x, prec) ==
    [h EXCEPT ![x] = Obj(FRoundVal(@.val, prec, @.mode), prec, @.mode)]

AgmAlias(h, x) == x
\* new(big.Float).Copy(x); the copy is the object Fresh(h)
AgmCopy(h, x) == Alloc(h, h[x])
AgmCopyOf(h, x) == Fresh(h)

\* AGM up to the loop
AgmBegin(h0, o, a, b) ==
    LET prec == IF h0[o].prec = 0 THEN MaxOf(h0[a].prec, h0[b].prec) ELSE h0[o].prec
        h1 == FSetPrec(h0, o, prec + Guard)
        a2 == AgmCopyOf(h1, a)
        h2 == FSetPrec(AgmCopy(h1, a), a2, prec + Guard)
        b2 == AgmCopyOf(h2, b)
        h3 == FSetPrec(AgmCopy(h2, b), b2, prec + Guard)
        swap == FCmp(h3[a2].val, h3[b2].val) = -1
    IN [heap |-> h3, o |-> o, prec |-> prec,
        a2 |-> IF swap THEN b2 ELSE a2,
        b2 |-> IF swap THEN a2 ELSE b2,
        lim |-> FInt(1, 0 - (prec + 1))]

\* one pass of the loop body, the subtraction of its test included
AgmStep(c) ==
    LET h == c.heap
        h1 == HCopy(h, c.o, c.a2)
        sum == FAdd(h1[c.a2].val, h1[c.b2].val, h1[c.a2].prec, h1[c.a2].mode)
        h2 == [h1 EXCEPT ![c.a2] = Obj(FShift(sum, -1), @.prec, @.mode)]
        prod == FMul(h2[c.b2].val, h2[c.o].val, h2[c.b2].prec, h2[c.b2].mode)
        h3 == [h2 EXCEPT ![c.b2] = Obj(FSqrt(prod, @.prec, @.mode), @.prec, @.mode)]
        diff == FSub(h3[c.a2].val, h3[c.b2].val, h3[c.o].prec, h3[c.o].mode)
    IN [c EXCEPT !.heap = [h3 EXCEPT ![c.o] = Obj(diff, @.prec, @.mode)]]

\* o.Sub(a2, b2).Cmp(lim) == -1
AgmLeaves(c) == FCmp(c.heap[c.o].val, c.lim) = -1

\* return o.Copy(a2).SetPrec(prec)
AgmEnd(c) == Returned(FSetPrec(HCopy(c.heap, c.o, c.a2), c.o, c.prec), c.o)

RECURSIVE AgmRun(_)
AgmRun(c) ==
    LET n == AgmStep(c)
    IN IF AgmLeaves(n) THEN AgmEnd(n) ELSE AgmRun(n)

\* AGM(o, a, b)
AGM(h, o, a, b) == AgmRun(AgmBegin(h, o, a, b))

(***************************************************************************)
(* The calls tried.  One call at a time: the caller builds its objects,    *)
(* calls, and looks at what came back.  In a call the source z is object   *)
(* 1; for Pow the source w is object 2; the destination o is either one of *)
(* the sources or an object of its own, the last of the heap.              *)
(***************************************************************************)
OPrecs == {0, 24, 100}
ZPrecs == {24, 53}
WPrecs == {53, 100}
OModes == {"ToNearestEven", "ToZero"}

Signs == {FALSE, TRUE}
\* zeros and infinities, which a zero precision can hold too
Specials(precs) ==
    {Obj(Val(f, s, "one", 0), q, "ToNearestEven") :
        f \in {"zero", "inf"}, s \in Signs, q \in precs \cup {0}}
Finites(mags, precs) ==
    {Obj(Val("finite", s, "one", n), q, "ToNearestEven") :
        n \in mags, s \in Signs, q \in precs}

SmallMags == (1..(2 * CScale)) \cup {3 * CScale, 4 * CScale}
\* beyond the range of math.Exp: k halvings bring 1000 * 2^(k-1) back in
ExpBigMags == {1000 * 2 ^ (k - 1) * CScale : k \in 1..MaxReduce}
\* 2^w is beyond the range of a float64 from w = 1024 on
PowBigMags == {1024 * 2 ^ (k - 1) * CScale : k \in 1..MaxReduce}

LogZs == Specials(ZPrecs) \cup Finites(SmallMags, ZPrecs)
ExpZs == Specials(ZPrecs) \cup Finites({CScale \div 2, CScale, 3 * CScale} \cup ExpBigMags, ZPrecs)
PowZs == Specials(ZPrecs) \cup Finites({CScale \div 2, CScale, 2 * CScale, 3 * CScale}, ZPrecs)
PowWs == Specials(WPrecs) \cup Finites({CScale \div 2, CScale, 2 * CScale}, WPrecs)
PowBigZs == Finites({CScale \div 2, 2 * CScale}, ZPrecs)
PowBigWs == Finites(PowBigMags, WPrecs)
\* what a destination may hold on entry
Dests == {Obj(v, q, m) : v \in {VZero(FALSE), VNum(7 * CScale)}, q \in OPrecs, m \in OModes}
         \ {Obj(VNum(7 * CScale), 0, m) : m \in OModes}

CallsInit == Start("Calls")

CallDone(op, pre, o, post) ==
    /\ cl' = [phase |-> "done", op |-> op, pre |-> pre, o |-> o, post |-> post]
    /\ UNCHANGED <<piVars, rnd, ag, nw, lg, turns>>

\* Log(o, z) with o an object of its own
CallLog ==
    /\ cl.phase = "idle"
    /\ \E z \in LogZs, d \in Dests :
          CallDone("Log", <<z, d>>, 2, Log(<<z, d>>, 2, 1))

\* Log(z, z)
CallLogInPlace ==
    /\ cl.phase = "idle"
    /\ \E z \in LogZs : CallDone("Log", <<z>>, 1, Log(<<z>>, 1, 1))

\* Exp(o, z) with o an object of its own
CallExp ==
    /\ cl.phase = "idle"
    /\ \E z \in ExpZs, d \in Dests :
          CallDone("Exp", <<z, d>>, 2, Exp(<<z, d>>, 2, 1))

\* Exp(z, z)
CallExpInPlace ==
    /\ cl.phase = "idle"
    /\ \E z \in ExpZs : CallDone("Exp", <<z>>, 1, Exp(<<z>>, 1, 1))

PowArgs == (PowZs \X PowWs) \cup (PowBigZs \X PowBigWs)

\* Pow(o, z, w) with o an object of its own
CallPow ==
    /\ cl.phase = "idle"
    /\ \E a \in PowArgs, d \in Dests :
          CallDone("Pow", <<a[1], a[2], d>>, 3, Pow(<<a[1], a[2], d>>, 3, 1, 2))

\* Pow(z, z, w) and Pow(w, z, w)
CallPowInPlace ==
    /\ cl.phase = "idle"
    /\ \E a \in PowArgs, o \in {1, 2} :
          CallDone("Pow", <<a[1], a[2]>>, o, Pow(<<a[1], a[2]>>, o, 1, 2))

\* the operands of AGM: a few small positive numbers, each at a precision
\* that holds it, under several rounding modes
AgmModes == {"ToZero", "AwayFromZero"}
AgmArgs == {Obj(FInt(k, 0), 2, m) : k \in {1, 3}, m \in AgmModes}
           \cup {Obj(FInt(6, 0), 24, "ToNearestEven")}
AgmDests == {Obj(FZero, q, "ToNearestEven") : q \in {0, 1, 24}}

\* the calls of AGM: AGM(o, a, b) with o an object of its own, AGM(a, a, b)
\* and AGM(b, a, b)
AgmCalls ==
    {[heap |-> <<a, b, d>>, o |-> 3] : a \in AgmArgs, b \in AgmArgs, d \in AgmDests}
    \cup {[heap |-> <<a, b>>, o |-> i] : a \in AgmArgs, b \in AgmArgs, i \in {1, 2}}

CallAGM ==
    /\ cl.phase = "idle"
    /\ \E c \in AgmCalls : CallDone("AGM", c.heap, c.o, AGM(c.heap, c.o, 1, 2))

\* Round(o, z, mode) over the heap: z is object 1 and o object 2
RoundOnHeap(h, o, z, mode) ==
    Returned([h EXCEPT ![o] = Round(h[o], h[z], mode, o = z)], o)

CallRound ==
    /\ cl.phase = "idle"
    /\ \E z \in RoundZs, d \in RoundOs, mode \in Modes :
          CallDone("Round", <<z, d>>, 2, RoundOnHeap(<<z, d>>, 2, 1, mode))

\* the caller drops the objects of the call
CallReturn ==
    /\ cl.phase = "done"
    /\ cl' = [phase |-> "idle"]
    /\ UNCHANGED <<piVars, rnd, ag, nw, lg, turns>>

CallsNext ==
    \/ CallLog
    \/ CallLogInPlace
    \/ CallExp
    \/ CallExpInPlace
    \/ CallPow
    \/ CallPowInPlace
    \/ CallAGM
    \/ CallRound
    \/ CallReturn

SpecCalls == CallsInit /\ [][CallsNext]_vars

(***************************************************************************)
(* newton(fOverDf, guess, dPrec): its precisions.  nw.prec is the local    *)
(* prec, nw.work the precision of guess, nw.p0 the precision guess came    *)
(* with and nw.d the target dPrec.  Precisions stay below big.MaxPrec, so  *)
(* that prec *= 2 and 2*dPrec do not wrap.                                 *)
(***************************************************************************)
\* the small precisions, and some in the range Exp calls newton with (the
\* guess has 53 bits there)
NewtonPrecs == (1..NewtonMaxPrec) \cup {Float64Prec, 100, 200, 1000}

NewtonInit == Start("newton")

NewtonStopsAtTarget(prec, dPrec) == prec < dPrec
\* for prec < 2*dPrec
NewtonContinues(prec, dPrec) == prec < 2 * dPrec

\* prec, guard := guess.Prec(), uint(64); guess.SetPrec(prec + guard)
NewtonCall ==
    /\ nw.phase = "idle"
    /\ \E p0 \in NewtonPrecs, d \in NewtonPrecs :
          nw' = [phase |-> "loop", p0 |-> p0, d |-> d, prec |-> p0, work |-> p0 + Guard]
    /\ UNCHANGED <<piVars, rnd, cl, ag, lg, turns>>

\* one pass: guess.Sub(guess, fOverDf(guess)); prec *= 2; guess.SetPrec(prec + guard)
NewtonIter ==
    /\ nw.phase = "loop"
    /\ NewtonContinues(nw.prec, nw.d)
    /\ nw' = [nw EXCEPT !.prec = 2 * @, !.work = 2 * nw.prec + Guard]
    /\ UNCHANGED <<piVars, rnd, cl, ag, lg, turns>>

\* return guess.SetPrec(dPrec)
NewtonExit ==
    /\ nw.phase = "loop"
    /\ ~NewtonContinues(nw.prec, nw.d)
    /\ nw' = [nw EXCEPT !.phase = "done", !.work = nw.d]
    /\ UNCHANGED <<piVars, rnd, cl, ag, lg, turns>>

\* the caller takes the result
NewtonReturn ==
    /\ nw.phase = "done"
    /\ nw' = [phase |-> "idle"]
    /\ UNCHANGED <<piVars, rnd, cl, ag, lg, turns>>

NewtonNext ==
    \/ NewtonCall
    \/ NewtonIter
    \/ NewtonExit
    \/ NewtonReturn

\* a call that has started keeps running
SpecNewton ==
    NewtonInit /\ [][NewtonNext]_vars /\ WF_vars(NewtonIter) /\ WF_vars(NewtonExit)

(***************************************************************************)
(* Log(o, z) for a finite z > 0, z # 1: the squaring loop, bit for bit.    *)
(* lg.x is the value of o, lg.prec its working precision (o's + 64),       *)
(* lg.mode its rounding mode, turns the count k of squarings (modulo       *)
(* TurnsMod), lg.neg the local neg.  What follows the loop (pi, AGM, the   *)
(* scaling by 2^-k) is one step.                                           *)
(***************************************************************************)
\* the count of turns of a loop is kept modulo this
TurnsMod == 4

LogInit == Start("Log")

\* 1 + 2^-j and 1 - 2^-j, at the j + 1 and j bits that hold them
OnePlus(j) == Obj(FAdd(FInt(1, 0), FInt(1, 0 - j), j + 1, "ToZero"), j + 1, "ToNearestEven")
OneMinus(j) == Obj(FSub(FInt(1, 0), FInt(1, 0 - j), j, "ToZero"), j, "ToNearestEven")

\* the sources: small numbers on both sides of 1, and numbers next to 1
\* that need more bits than the working precision has
LogLoopZs ==
    {Obj(FInt(k, 0 - 2), 24, "ToNearestEven") : k \in {1, 2, 3, 5, 6, 8, 12, 40}}
    \cup {OnePlus(j) : j \in {10, 80, 100}}
    \cup {OneMinus(j) : j \in {10, 80, 100}}
LogLoopPrecs == {1, 24}

\* lim.SetMantExp(two, int(prec/2))
LogLim(prec) == FInt(1, 1 + prec \div 2)

\* Log down to the loop: o.SetPrec(prec).Set(z), or .Quo(one, z) for z < 1
LogCall ==
    /\ lg.phase = "idle"
    /\ \E z \in LogLoopZs, q \in LogLoopPrecs, mode \in Modes :
          LET prec == q + Guard
              below == FCmp(z.val, FInt(1, 0)) = -1
          IN lg' = [phase |-> "loop", z |-> z, prec |-> prec, mode |-> mode,
                    neg |-> below,
                    x |-> IF below THEN FQuo(FInt(1, 0), z.val, prec, mode)
                                   ELSE FRoundVal(z.val, prec, mode)]
    /\ turns' = 0
    /\ UNCHANGED <<piVars, rnd, cl, ag, nw>>

\* for o.Cmp(lim) < 0
LogLoopContinues(x, prec) == FCmp(x, LogLim(prec)) < 0

\* o.Mul(o, o); k++
LogSquare ==
    /\ lg.phase = "loop"
    /\ LogLoopContinues(lg.x, lg.prec)
    /\ lg' = [lg EXCEPT !.x = FMul(@, @, lg.prec, lg.mode)]
    /\ turns' = (turns + 1) % TurnsMod
    /\ UNCHANGED <<piVars, rnd, cl, ag, nw>>

\* the loop is left; pi / (2 AGM(1, 4/o)), the sign, the scaling by 2^-k
\* and o.SetPrec(prec - 64)
LogFinish ==
    /\ lg.phase = "loop"
    /\ ~LogLoopContinues(lg.x, lg.prec)
    /\ lg' = [lg EXCEPT !.phase = "done", !.prec = @ - Guard]
    /\ UNCHANGED <<piVars, rnd, cl, ag, nw, turns>>

\* the caller takes the result
LogReturn ==
    /\ lg.phase = "done"
    /\ lg' = [phase |-> "idle"]
    /\ UNCHANGED <<piVars, rnd, cl, ag, nw, turns>>

LogNext ==
    \/ LogCall
    \/ LogSquare
    \/ LogFinish
    \/ LogReturn

\* a turn of the loop, by what it does to the count: the step LogSquare
\* takes
LogTurn ==
    /\ lg.phase = "loop"
    /\ LogLoopContinues(lg.x, lg.prec)
    /\ turns' = (turns + 1) % TurnsMod

\* a call that has started keeps running: the loop takes its next turn
\* while its test holds, and is left when it fails
SpecLog ==
    LogInit /\ [][LogNext]_vars /\ WF_turns(LogTurn) /\ WF_vars(LogFinish)

(***************************************************************************)
(* AGM(o, a, b), pass by pass.  ag.c holds the heap of the call, the       *)
(* objects a2, b2 and o, the precision prec and the threshold lim; turns   *)
(* is the count of passes through the loop body.                           *)
(***************************************************************************)
AgmInit == Start("AGM")

\* the operands: small numbers, powers of two far above 2^63, and the two
\* neighbours 2^64 + 2 and 2^64 + 1
AgmLoopArgs ==
    {Obj(FInt(k, 0), 24, "ToNearestEven") : k \in {1, 3, 1000}}
    \cup {Obj(FInt(1, e), 24, "ToNearestEven") : e \in {62, 70}}
    \cup {Obj(FAdd(FInt(1, 64), FInt(k, 0), 65, "ToZero"), 65, "ToNearestEven") : k \in {1, 2}}
AgmLoopPrecs == {0, 1}

\* AGM down to the loop, o an object of its own
AgmCall ==
    /\ ag.phase = "idle"
    /\ \E a \in AgmLoopArgs, b \in AgmLoopArgs, q \in AgmLoopPrecs :
          ag' = [phase |-> "loop",
                 c |-> AgmBegin(<<a, b, Obj(FZero, q, "ToNearestEven")>>, 3, 1, 2)]
    /\ turns' = 0
    /\ UNCHANGED <<piVars, rnd, cl, nw, lg>>

\* one pass: the body, then the test that breaks out of the loop and the
\* return that follows it
AgmIter ==
    /\ ag.phase = "loop"
    /\ LET n == AgmStep(ag.c)
       IN ag' = IF AgmLeaves(n)
                   THEN [phase |-> "done", c |-> n, post |-> AgmEnd(n)]
                   ELSE [phase |-> "loop", c |-> n]
    /\ turns' = (turns + 1) % TurnsMod
    /\ UNCHANGED <<piVars, rnd, cl, nw, lg>>

\* the caller takes the result
AgmReturn ==
    /\ ag.phase = "done"
    /\ ag' = [phase |-> "idle"]
    /\ UNCHANGED <<piVars, rnd, cl, nw, lg, turns>>

AgmNext ==
    \/ AgmCall
    \/ AgmIter
    \/ AgmReturn

\* a pass of the loop, by what it does to the count: the step AgmIter takes
AgmTurn ==
    /\ ag.phase = "loop"
    /\ turns' = (turns + 1) % TurnsMod

\* a call that has started keeps running: the loop makes its next pass
SpecAGM == AgmInit /\ [][AgmNext]_vars /\ WF_turns(AgmTurn)

(***************************************************************************)
(* Claims about Round.                                                     *)
(***************************************************************************)
\* the integer nearest to v / 2^FracBits as mode constrains, for a signed
\* number v of 2^-FracBits units: floor, ceiling, truncation, and the two
\* nearest-integer rules, stated on signed numbers
RefRound(v, mode) ==
    LET fl == v \div Scale
        fr == v - fl * Scale
    IN IF fr = 0 THEN fl
       ELSE CASE mode = "ToNegativeInf" -> fl
              [] mode = "ToPositiveInf" -> fl + 1
              [] mode = "ToZero" -> IF v > 0 THEN fl ELSE fl + 1
              [] mode = "AwayFromZero" -> IF v > 0 THEN fl + 1 ELSE fl
              [] mode = "ToNearestEven" ->
                   IF 2 * fr < Scale THEN fl
                   ELSE IF 2 * fr > Scale THEN fl + 1
                   ELSE IF fl % 2 = 0 THEN fl ELSE fl + 1
              [] mode = "ToNearestAway" ->
                   IF 2 * fr < Scale THEN fl
                   ELSE IF 2 * fr > Scale THEN fl + 1
                   ELSE IF v > 0 THEN fl + 1 ELSE fl

\* the integer n as a float of the given precision and rounding mode, rounded
\* to that precision only if it does not fit
AsFloat(n, prec, mode) ==
    RoundF(BigFloat(IF n = 0 THEN "zero" ELSE "finite", n < 0,
                    (IF n < 0 THEN 0 - n ELSE n) * Scale, prec, mode))

RoundDone == rnd.phase = "done"

\* C6: for a destination of precision zero or at least z's precision, Round
\* sets o to the reference integer rounding of z under mode; zeros and
\* infinities pass through unchanged.
C6_RoundIsReference ==
    (RoundDone /\ (rnd.o.prec = 0 \/ rnd.o.prec >= rnd.z.prec)) =>
        CASE rnd.z.form = "finite" ->
                 /\ rnd.res.form # "inf"
                 /\ Signed(rnd.res) = RefRound(Signed(rnd.z), rnd.mode) * Scale
          [] rnd.z.form = "zero" -> rnd.res.form = "zero" /\ rnd.res.neg = rnd.z.neg
          [] rnd.z.form = "inf" -> rnd.res.form = "inf" /\ rnd.res.neg = rnd.z.neg

\* C6 witness: -2.5 has been rounded to nearest even, giving -2, into a
\* destination of the same precision as z.
C6_Witness ==
    /\ RoundDone
    /\ rnd.z.form = "finite" /\ rnd.z.neg /\ 2 * rnd.z.num = 5 * Scale
    /\ rnd.mode = "ToNearestEven"
    /\ rnd.o.prec = rnd.z.prec /\ ~rnd.same
    /\ Signed(rnd.res) = (0 - 2) * Scale

\* C7: for a non-integer finite z and a destination of nonzero precision
\* smaller than z's, Round gives z rounded to an integer under mode and then,
\* only if that integer does not fit o's precision, rounded again to o's
\* precision under o's own rounding mode.
C7_RoundThenRoundAgain ==
    (/\ RoundDone
     /\ rnd.z.form = "finite" /\ ~IsInt(rnd.z)
     /\ rnd.o.prec # 0 /\ rnd.o.prec < rnd.z.prec) =>
        Signed(rnd.res) =
            Signed(AsFloat(RefRound(Signed(rnd.z), rnd.mode), rnd.o.prec, rnd.o.mode))

\* C7 restricted to destinations whose precision exceeds the bit length of
\* z's integer part (kept as a check of where the divergence lies)
RoundAgainAboveIntegerPart ==
    (/\ RoundDone
     /\ rnd.z.form = "finite" /\ ~IsInt(rnd.z)
     /\ rnd.o.prec # 0
     /\ rnd.o.prec > MantExp(rnd.z) /\ rnd.o.prec < rnd.z.prec) =>
        Signed(rnd.res) =
            Signed(AsFloat(RefRound(Signed(rnd.z), rnd.mode), rnd.o.prec, rnd.o.mode))

(***************************************************************************)
(* Claims about the pi cache.                                              *)
(***************************************************************************)
CalcPos == {"pi_calc2", "c_calc2"}
InCalc(p) == pc[p] \in CalcPos

\* C1: the precision of the value held in piCache never decreases, and every
\* value stored into piCache has strictly greater precision than the value
\* it replaces.
C1_CachePrecisionGrows ==
    [][/\ heap'[piCache'].prec >= heap[piCache].prec
       /\ Len(hist') > Len(hist) => heap'[piCache'].prec > heap[piCache].prec]_vars

\* C1 witness: the cache has been replaced twice, by a Pi call and by a
\* cachedPi call, and now holds more precision than both earlier values.
C1_Witness ==
    /\ Len(hist) = 3
    /\ origin[2] # origin[3]
    /\ 0 \in {origin[2], origin[3]}
    /\ heap[hist[3]].prec > heap[hist[2]].prec
    /\ heap[hist[2]].prec > heap[hist[1]].prec

\* C2: cachedPi(p) returns a value whose precision is at least p, and the
\* value is one that was the published cache value at some point of the call.
C2_CachedPiResult ==
    \A p \in Procs :
        (pc[p] = "ret" /\ kind[p] = "cachedPi") =>
            /\ heap[ret[p]].prec >= req[p]
            /\ \E i \in startIdx[p]..Len(hist) : hist[i] = ret[p]

\* C2 witness: a cachedPi call that found the cache insufficient has returned
\* a value another goroutine published during the call.
C2_Witness ==
    \E p \in Procs :
        /\ pc[p] = "ret" /\ kind[p] = "cachedPi"
        /\ firstCov[p] = "no"
        /\ tmp[p] = 0
        /\ \E i \in (startIdx[p] + 1)..Len(hist) : hist[i] = ret[p]

\* C3, as stated: every fresh computation of pi, through Pi as well as through
\* cachedPi, runs only while its caller holds piMu, so at most one computation
\* is in progress at any time.
C3_Original ==
    /\ \A p \in Procs : InCalc(p) => piMu = p
    /\ Cardinality({p \in Procs : InCalc(p)}) <= 1

\* C3, amended: through cachedPi the computation runs only while the caller
\* holds piMu and after it re-read the cache under the lock and found it
\* insufficient (and it still is), so at most one cachedPi computation is in
\* progress; Pi computes before it takes piMu, and holds piMu from its
\* re-read of the cache to its store.
C3_ComputeUnderLock ==
    /\ \A p \in Procs :
          pc[p] \in {"c_calc2", "c_store"} =>
              /\ piMu = p
              /\ ld[p] = piCache
              /\ heap[piCache].prec < req[p]
    /\ Cardinality({p \in Procs : pc[p] = "c_calc2"}) <= 1
    /\ \A p \in Procs : pc[p] \in {"pi_reload", "pi_store", "pi_unlock"} => piMu = p
    /\ \A p \in Procs : pc[p] \in {"pi_calc", "pi_calc2"} => piMu # p

\* C3 witness: a cachedPi computation under the lock while a Pi computation
\* runs outside it.
C3_Witness ==
    \E p, q \in Procs :
        /\ pc[p] = "c_calc2" /\ piMu = p
        /\ pc[q] = "pi_calc2"

\* C4: a call whose requested precision is covered by the cache value it
\* first loads never acquires or waits on piMu, and returns after a bounded
\* number of its own steps, whoever holds piMu.
C4_CoveredNeverLocks ==
    \A p \in Procs :
        firstCov[p] = "yes" =>
            /\ pc[p] = "ret"
            /\ piMu # p
            /\ steps[p] <= 3

\* C4 witness: a covered call has started and returned while another
\* goroutine was computing pi under piMu.
C4_Witness ==
    \E p, q \in Procs :
        /\ firstCov[p] = "yes" /\ pc[p] = "ret" /\ busyAtStart[p]
        /\ piMu = q /\ pc[q] = "c_calc2"

\* C5: an object that has been stored into piCache is never written again,
\* is completely computed, and is never the destination a caller gave Pi.
C5_PublishedImmutable ==
    [][/\ \A i \in 1..Len(hist) : heap'[hist[i]] = heap[hist[i]]
       /\ \A i \in 1..Len(hist') :
             /\ heap'[hist'[i]].val = "pi"
             /\ \A p \in Procs : hist'[i] # dstOf(p)]_vars

\* C5 witness: Pi published a copy of its caller's destination, the caller
\* then changed the destination, and the cache still holds pi.
C5_Witness ==
    \E p \in Procs :
        /\ origin[Len(hist)] = dstOf(p)
        /\ heap[dstOf(p)].val = "user"
        /\ pc[p] = "idle"
        /\ heap[piCache].val = "pi"

(***************************************************************************)
(* Claims about Log, Exp and Pow.                                          *)
(***************************************************************************)
CallIs(op) == cl.phase = "done" /\ cl.op = op
\* the precision the destination is to have after the call
KeptPrec(o0, dflt) == IF o0.prec = 0 THEN dflt ELSE o0.prec

\* C8: after Pow(o, z, w) returns normally, the returned reference is o, o
\* holds the result, and o's precision is its precision on entry if that was
\* nonzero and otherwise the larger of z's and w's
C8_PowSetsDestination ==
    (CallIs("Pow") /\ cl.post.out = "ok") =>
        LET h == cl.post.heap
        IN /\ cl.post.ret = cl.o
           /\ h[cl.o].val = h[cl.post.ret].val
           /\ h[cl.o].prec = KeptPrec(cl.pre[cl.o], MaxOf(cl.pre[1].prec, cl.pre[2].prec))

\* the same for the calls Pow answers by exp(w log z) without an argument
\* reduction in Exp
C8_GeneralPathSetsDestination ==
    (/\ CallIs("Pow") /\ cl.post.out = "ok"
     /\ SignOf(cl.pre[2].val) # 0 /\ cl.pre[2].val # VOne /\ cl.pre[1].val.form # "inf"
     /\ cl.pre[2].val.form = "inf" \/ cl.pre[2].val.n \notin PowBigMags) =>
        LET h == cl.post.heap
        IN /\ cl.post.ret = cl.o
           /\ h[cl.o].prec = KeptPrec(cl.pre[cl.o], MaxOf(cl.pre[1].prec, cl.pre[2].prec))

\* e^v as a value
ExpRef(v) ==
    CASE v.form = "zero" -> VOne
      [] v.form = "inf" -> IF v.neg THEN VZero(FALSE) ELSE VInf(FALSE)
      [] OTHER -> ExpVal(v)

\* C9: after Exp(o, z) returns, also with o and z one object, the returned
\* reference is o, o holds e to the original value of z, and o's precision is
\* its precision on entry if nonzero and otherwise z's
C9_ExpSetsDestination ==
    CallIs("Exp") =>
        LET h == cl.post.heap
        IN /\ cl.post.out = "ok"
           /\ cl.post.ret = cl.o
           /\ h[cl.o].val = ExpRef(cl.pre[1].val)
           /\ h[cl.o].prec = KeptPrec(cl.pre[cl.o], cl.pre[1].prec)

\* the same when o and z are two objects and z is not a zero of precision 0
C9_DistinctDestination ==
    (CallIs("Exp") /\ cl.o # 1 /\ cl.pre[1].prec # 0) =>
        LET h == cl.post.heap
        IN /\ cl.post.out = "ok"
           /\ cl.post.ret = cl.o
           /\ h[cl.o].val = ExpRef(cl.pre[1].val)
           /\ h[cl.o].prec = KeptPrec(cl.pre[cl.o], cl.pre[1].prec)

LogReturns(v, prec) ==
    /\ cl.post.out = "ok"
    /\ cl.post.ret = cl.o
    /\ cl.post.heap[cl.o].val = v
    /\ cl.post.heap[cl.o].prec = prec

\* C10: Log(o, z) panics with an ErrNaN that unwraps to big.ErrNaN exactly
\* when z has its sign bit set (-0 and -Inf included); Log(+0) = -Inf,
\* Log(+Inf) = +Inf and Log(1) = +0 return normally at o's precision, z's if
\* o's was zero
C10_LogSpecialCases ==
    CallIs("Log") =>
        LET z == cl.pre[1]
            prec == KeptPrec(cl.pre[cl.o], z.prec)
        IN /\ (cl.post.out = "panic") <=> z.val.neg
           /\ cl.post.out = "panic" =>
                 /\ cl.post.err.type = "bigfloat.ErrNaN"
                 /\ Unwrap(cl.post.err) = [type |-> "big.ErrNaN", msg |-> ""]
           /\ z.val = VZero(FALSE) => LogReturns(VInf(TRUE), prec)
           /\ z.val = VInf(FALSE) => LogReturns(VInf(FALSE), prec)
           /\ z.val = VOne => LogReturns(VZero(FALSE), prec)

\* Log has panicked on -0 given a destination of precision zero
C10_Witness ==
    /\ CallIs("Log")
    /\ cl.pre[1].val = VZero(TRUE)
    /\ cl.post.out = "panic"
    /\ cl.pre[cl.o].prec = 0

\* Log has returned from 1 given a destination of precision zero
C10_WitnessReturns ==
    /\ CallIs("Log")
    /\ cl.pre[1].val = VOne
    /\ cl.pre[cl.o].prec = 0
    /\ cl.post.out = "ok"

\* the value the call returned
Result == cl.post.heap[cl.post.ret].val
PowReturns(v) == cl.post.out = "ok" /\ Result = v
PowPanics == cl.post.out = "panic" /\ cl.post.err.type = "bigfloat.ErrNaN"

\* C11: Pow panics with ErrNaN for every z with the sign bit set, whatever w
\* is; for every other z, Pow(z, 0) = 1 and Pow(z, 1) = z; and
\* Pow(+Inf, w) = +Inf for every w
C11_PowSpecialCases ==
    CallIs("Pow") =>
        LET z == cl.pre[1].val
            w == cl.pre[2].val
        IN /\ z.neg => PowPanics
           /\ (~z.neg /\ w.form = "zero") => PowReturns(VOne)
           /\ (~z.neg /\ w = VOne) => PowReturns(z)
           /\ z = VInf(FALSE) => PowReturns(VInf(FALSE))

\* the same table for a z of nonzero precision, with the row of +Inf read
\* for w # 0
C11_TableAtNonzeroPrecision ==
    (CallIs("Pow") /\ cl.pre[1].prec # 0) =>
        LET z == cl.pre[1].val
            w == cl.pre[2].val
        IN /\ z.neg => PowPanics
           /\ (~z.neg /\ w.form = "zero") => PowReturns(VOne)
           /\ (~z.neg /\ w = VOne) => PowReturns(z)
           /\ (z = VInf(FALSE) /\ w.form # "zero") => PowReturns(VInf(FALSE))

\* the source operands of the call, as objects of its heap
Sources == IF cl.op \in {"Pow", "AGM"} THEN {1, 2} ELSE {1}

\* C12: after AGM, Log, Exp, Pow or Round, every source operand that is
\* another object than the destination has the value, precision and rounding
\* mode it had before the call
C12_SourcesUnchanged ==
    cl.phase = "done" =>
        \A i \in Sources : i # cl.o => cl.post.heap[i] = cl.pre[i]

\* AGM has returned into a destination of its own, having worked on copies
\* with guard precision
C12_Witness ==
    /\ CallIs("AGM")
    /\ cl.o = 3
    /\ Len(cl.post.heap) = 5
    /\ cl.post.heap[4].prec = cl.post.heap[3].prec + Guard
    /\ cl.pre[1].prec # cl.post.heap[4].prec

(***************************************************************************)
(* Round: what is left of the destination's settings.                      *)
(***************************************************************************)
\* C13: when Round(o, z, mode) returns, o has the rounding mode it had
\* before the call, and its precision before the call if that was nonzero,
\* otherwise z's precision
C13_RoundKeepsModeAndPrec ==
    RoundDone =>
        /\ rnd.res.mode = rnd.o.mode
        /\ rnd.res.prec = KeptPrec(rnd.o, rnd.z.prec)

\* Round has shrunk o under an argument mode other than o's own and has
\* put o's mode and precision back
C13_Witness ==
    /\ RoundDone
    /\ rnd.z.form = "finite" /\ ~IsInt(rnd.z)
    /\ rnd.o.prec > MantExp(rnd.z) /\ MantExp(rnd.z) > 0
    /\ rnd.mode # rnd.o.mode
    /\ rnd.res.mode = rnd.o.mode
    /\ Signed(rnd.res) # Signed(rnd.z)

(***************************************************************************)
(* AGM: the order of its arguments.                                        *)
(***************************************************************************)
\* the working pair a2, b2 as objects, after the ordering step
WorkingPair(c) == <<c.heap[c.a2], c.heap[c.b2]>>

\* AGM(o', b, a) for the call AGM(o, a, b) made, o' being as o was
Swapped == AGM(cl.pre, 3, 2, 1)

\* C14: AGM(o, a, b) and AGM(o', b, a) give the same value at the same
\* precision for all positive finite a and b of any precisions and rounding
\* modes, the working pair after the ordering step being the same
C14_AgmSymmetric ==
    (CallIs("AGM") /\ cl.o = 3) =>
        /\ WorkingPair(AgmBegin(cl.pre, 3, 1, 2)) = WorkingPair(AgmBegin(cl.pre, 3, 2, 1))
        /\ Swapped.heap[3].val = cl.post.heap[3].val
        /\ Swapped.heap[3].prec = cl.post.heap[3].prec

\* the same for a and b that differ in value at the working precision or
\* have one rounding mode
C14_SymmetricUnlessEqualUnderTwoModes ==
    (/\ CallIs("AGM") /\ cl.o = 3
     /\ LET c == AgmBegin(cl.pre, 3, 1, 2)
        IN \/ c.heap[c.a2].val # c.heap[c.b2].val
           \/ cl.pre[1].mode = cl.pre[2].mode) =>
        /\ WorkingPair(AgmBegin(cl.pre, 3, 1, 2)) = WorkingPair(AgmBegin(cl.pre, 3, 2, 1))
        /\ Swapped.heap[3] = cl.post.heap[3]

(***************************************************************************)
(* newton: termination and precisions.                                     *)
(***************************************************************************)
NewtonLooping == nw.phase = "loop"
NewtonDone == nw.phase = "done"
\* a step that is one pass of the loop
NewtonPass == NewtonLooping /\ nw'.phase = "loop"
\* a step that leaves the loop
NewtonLeave == NewtonLooping /\ nw'.phase = "done"
\* a step that enters newton
NewtonEnter == nw.phase = "idle" /\ nw'.phase = "loop"

\* C15 as stated: newton terminates; the working precision starts at
\* p0 + 64, doubles at each pass, passes are made until the working
\* precision exceeds twice the target d, and the result has precision d
C15_Original ==
    /\ NewtonLooping ~> NewtonDone
    /\ [][/\ NewtonEnter => nw'.work = nw'.p0 + Guard
          /\ NewtonPass => (nw.work <= 2 * nw.d /\ nw'.work = 2 * nw.work)
          /\ NewtonLeave => (nw.work > 2 * nw.d /\ nw'.work = nw.d)]_vars

\* C15 as the code has it: newton terminates; the local prec starts at p0
\* and doubles at each pass, the working precision being prec + 64
\* throughout; passes are made until prec is at least twice the target d,
\* and the result has precision d
C15_NewtonPrecisions ==
    /\ NewtonLooping ~> NewtonDone
    /\ [](NewtonLooping => nw.work = nw.prec + Guard)
    /\ [][/\ NewtonEnter => nw'.prec = nw'.p0
          /\ NewtonPass => (nw.prec < 2 * nw.d /\ nw'.prec = 2 * nw.prec)
          /\ NewtonLeave => (nw.prec >= 2 * nw.d /\ nw'.work = nw.d)]_vars

\* newton has returned after passes made although the working precision
\* exceeded twice the target from the start
C15_Witness ==
    /\ NewtonDone
    /\ nw.prec > nw.p0
    /\ nw.p0 + Guard > 2 * nw.d
    /\ nw.work = nw.d

(***************************************************************************)
(* Log: termination of the squaring loop.                                  *)
(***************************************************************************)
LogLooping == lg.phase = "loop"
LogDone == lg.phase = "done"

\* C16: Log(o, z) terminates for every finite z > 0 and every precision and
\* rounding mode of o, also when z has more precision than o's working
\* precision: the squaring loop reaches 2^(prec/2) after finitely many
\* squarings
C16_LogTerminates == LogLooping ~> LogDone

\* the same for a z that the working precision holds exactly
C16_TerminatesWhenZFits ==
    (LogLooping /\ lg.z.prec <= lg.prec) ~> LogDone

\* a squaring that leaves o as it was, below lim: the loop is where it was
C16_Stuck ==
    /\ LogLooping
    /\ LogLoopContinues(lg.x, lg.prec)
    /\ FMul(lg.x, lg.x, lg.prec, lg.mode) = lg.x

\* what AGM's loop works on
AgmLooping == ag.phase = "loop"
AgmDone == ag.phase = "done"
AgmA2 == ag.c.heap[ag.c.a2].val
AgmB2 == ag.c.heap[ag.c.b2].val

\* C17: AGM terminates for positive finite a and b of any magnitude and
\* every target precision: a call that is in the loop is at last done.
C17_AgmTerminates == AgmLooping ~> AgmDone

\* the loop is left when a2 is below 2^63, where one unit in the last place
\* of the working pair is below the threshold
C17_TerminatesBelowTwoTo63 ==
    (AgmLooping /\ FCmp(AgmA2, FInt(1, 63)) = -1) ~> AgmDone

\* a pass that changes nothing of the working pair and fails the test: the
\* loop is where it was
C17_Stuck ==
    /\ AgmLooping
    /\ AgmStep(ag.c) = ag.c
    /\ ~AgmLeaves(ag.c)

\* Log or Pow has failed with a domain error
DomainError ==
    /\ cl.phase = "done"
    /\ cl.op \in {"Log", "Pow"}
    /\ cl.post.out = "panic"
    /\ cl.post.err.type = "bigfloat.ErrNaN"
\* the destination after the call is the object it was before the call
DestinationKept == cl.post.heap[cl.o] = cl.pre[cl.o]

\* C18: when Log or Pow fails with a domain error, the destination o is as
\* it was before the call, in value, precision and rounding mode, also when
\* its precision was zero on entry.
C18_DestinationKeptOnDomainError == DomainError => DestinationKept

\* the destination is kept when its precision on entry is not zero, and
\* keeps its value and rounding mode in every case
C18_KeptAtNonzeroPrecision ==
    DomainError =>
        /\ cl.pre[cl.o].prec # 0 => DestinationKept
        /\ cl.post.heap[cl.o].val = cl.pre[cl.o].val
        /\ cl.post.heap[cl.o].mode = cl.pre[cl.o].mode

\* a domain error of Log that has changed the precision of a destination
\* of its own
C18_PrecisionSetBeforePanic ==
    /\ DomainError
    /\ cl.op = "Log"
    /\ cl.o # 1
    /\ cl.pre[cl.o].prec = 0
    /\ cl.post.heap[cl.o].prec = cl.pre[1].prec
    /\ cl.pre[1].prec # 0
====
